---- MODULE Spec2Model ----
(***************************************************************************)
(* A model of group_1_proj/surface.py: the SurfaceQubit class (a distance-d *)
(* surface code memory), the gate program it builds, the execution of that  *)
(* program on a simulator (exec) and the decoding of the measured           *)
(* registers (measure_z, get_flips).                                        *)
(*                                                                          *)
(* Qubits are numbered globally: data[k] is k, syndrome[k] is d*d + k and   *)
(* ancilla[0] is 2*d*d - 1.  An integer read from a classical register is   *)
(* kept as the set of its set bit positions, so that x ^ y is the symmetric *)
(* difference and x & (1 << i) is membership of i (registers of more than   *)
(* 31 bits do not overflow).                                                *)
(***************************************************************************)
EXTENDS Integers, Sequences, FiniteSets, TLC

\* ------------------------------------------------------------------ bounds
\* Largest distance handed to the constructor.
MaxD == 5
\* Largest number of stabilize() calls on one SurfaceQubit.
MaxRounds == 3
\* Largest distance, and number of calls on one SurfaceQubit, where the
\* object is used on after its program was handed over (SpecReuse).
ReuseMaxD == 3
MaxCalls == 4
\* Period of the simulator's random bit sequence: every sequence of that
\* period is explored.
CoinBits == 1

\* The distances handed to the constructor: negative, zero, even and odd.
Distances == (0 - 3) .. MaxD

\* ---------------------------------------------------------------- helpers
\* x ^ y on bit sets (and the sum of two rows of bits modulo 2).
SymDiff(A, B) == {x : x \in {y \in A : y \notin B} \cup {y \in B : y \notin A}}

Odd(n) == n % 2 = 1

\* Python's range(n): empty for n <= 0.
Range(n) == 0 .. (n - 1)

NoQubit == 0 - 1

\* ------------------------------------------------------- registers, qubits
DataSize(dd) == dd * dd

SyndromeSize(dd) == dd * dd - 1

Data(dd, k) == k

Syndrome(dd, k) == DataSize(dd) + k

Ancilla(dd) == DataSize(dd) + SyndromeSize(dd)

NumQubits(dd) == DataSize(dd) + SyndromeSize(dd) + 1

\* --------------------------------------------------------- face circuits
\* xxxx(circ, s, edges): the gates of an X-type face.
xxxx(s, edges) ==
    <<  <<"h", s>>  >>
    \o (IF edges[1] # NoQubit
          THEN << <<"cx", s, edges[1]>>, <<"cx", s, edges[2]>> >> ELSE << >>)
    \o (IF edges[3] # NoQubit
          THEN << <<"cx", s, edges[3]>>, <<"cx", s, edges[4]>> >> ELSE << >>)
    \o <<  <<"h", s>>  >>

\* zzzz(circ, s, edges): the gates of a Z-type face.
zzzz(s, edges) ==
    (IF edges[1] # NoQubit
          THEN << <<"cx", edges[1], s>>, <<"cx", edges[3], s>> >> ELSE << >>)
    \o (IF edges[2] # NoQubit
          THEN << <<"cx", edges[2], s>>, <<"cx", edges[4], s>> >> ELSE << >>)

\* ------------------------------------------------------ face enumeration
\* The chessboard test with the precedence slip i + j % 2 == 0.
InteriorIsZ_Precedence(i, j) == i + (j % 2) = 0

\* The chessboard test of the interior loop.
InteriorIsZ(i, j) == (i + j) % 2 = 0

\* The face of the interior loop at row i, column j.
InteriorFace(dd, i, j) ==
    LET ul == i * dd + j
        ur == ul + 1
        ll == ul + dd
        lr == ll + 1
    IN  [type  |-> IF InteriorIsZ(i, j) THEN "Z" ELSE "X",
         kind  |-> "interior", row |-> i, col |-> j,
         edges |-> <<Data(dd, ul), Data(dd, ur), Data(dd, ll), Data(dd, lr)>>]

UpperEdgeFace(dd, i) ==
    LET ll == 2 * i
        lr == ll + 1
    IN  [type |-> "X", kind |-> "upper", row |-> i, col |-> 0,
         edges |-> <<NoQubit, NoQubit, Data(dd, ll), Data(dd, lr)>>]

RightEdgeFace(dd, i) ==
    LET ul == 2 * i * dd + dd - 1
        ll == ul + dd
    IN  [type |-> "Z", kind |-> "right", row |-> i, col |-> 0,
         edges |-> <<Data(dd, ul), NoQubit, Data(dd, ll), NoQubit>>]

LowerEdgeFace(dd, i) ==
    LET ur == dd * dd - 1 - i
        ul == ur - 1
    IN  [type |-> "X", kind |-> "lower", row |-> i, col |-> 0,
         edges |-> <<Data(dd, ul), Data(dd, ur), NoQubit, NoQubit>>]

LeftEdgeFace(dd, i) ==
    LET ur == 2 * i * dd + dd
        lr == ur + dd
    IN  [type |-> "Z", kind |-> "left", row |-> i, col |-> 0,
         edges |-> <<NoQubit, Data(dd, ur), NoQubit, Data(dd, lr)>>]

\* Iterations of each of the two nested interior loops: range(d - 1).
InteriorSide(dd) == IF dd - 1 > 0 THEN dd - 1 ELSE 0

\* The edge loop one iteration short.
EdgeIters_Short(dd) == IF dd \div 2 - 1 > 0 THEN dd \div 2 - 1 ELSE 0

\* Iterations of the edge loop: range(d // 2).
EdgeIters(dd) == IF dd \div 2 > 0 THEN dd \div 2 ELSE 0

\* The faces in the order stabilize() traverses them.
Faces(dd) ==
    LET m  == InteriorSide(dd)
        ni == m * m
        ne == 4 * EdgeIters(dd)
    IN  [k \in 1 .. (ni + ne) |->
           IF k <= ni
             THEN InteriorFace(dd, (k - 1) \div m, (k - 1) % m)
             ELSE LET b == k - 1 - ni
                      i == b \div 4
                  IN  CASE b % 4 = 0 -> UpperEdgeFace(dd, i)
                        [] b % 4 = 1 -> RightEdgeFace(dd, i)
                        [] b % 4 = 2 -> LowerEdgeFace(dd, i)
                        [] OTHER     -> LeftEdgeFace(dd, i)]

\* The data qubits a face acts on.
Participants(f) == {f.edges[e] : e \in 1 .. 4} \ {NoQubit}

\* s = next(it): the k-th face (k = 1, 2, ...) takes the k-th syndrome qubit;
\* the iterator over the d*d - 1 syndrome qubits is exhausted after them.
NextSyndrome(dd, k) == IF k <= SyndromeSize(dd) THEN Syndrome(dd, k - 1) ELSE NoQubit

FaceGates(dd, k) ==
    LET f == Faces(dd)[k]
        s == NextSyndrome(dd, k)
    IN  IF f.type = "Z" THEN zzzz(s, f.edges) ELSE xxxx(s, f.edges)

RECURSIVE AllFaceGates(_, _)
AllFaceGates(dd, k) ==
    IF k = 0 THEN << >> ELSE AllFaceGates(dd, k - 1) \o FaceGates(dd, k)

\* circuit.measure(syndrome, readout): qubit k into bit k of register reg.
MeasureAll(dd, reg) ==
    [k \in 1 .. SyndromeSize(dd) |-> <<"measure", Syndrome(dd, k - 1), reg, k - 1>>]

ResetAll(dd) == [k \in 1 .. SyndromeSize(dd) |-> <<"reset", Syndrome(dd, k - 1)>>]

\* stabilize that resets the syndrome qubits before it measures them.
StabilizeGates_ResetFirst(dd, reg) ==
    AllFaceGates(dd, Len(Faces(dd)))
    \o ResetAll(dd) \o MeasureAll(dd, reg) \o << <<"barrier">> >>

\* Everything one call of stabilize() appends; reg is the index of the round's
\* register in the circuit's list of classical registers.
StabilizeGates(dd, reg) ==
    AllFaceGates(dd, Len(Faces(dd)))
    \o MeasureAll(dd, reg) \o ResetAll(dd) \o << <<"barrier">> >>

LogicalZGates(dd) ==
    [k \in 1 .. (IF dd > 0 THEN dd ELSE 0) |-> <<"z", Data(dd, k - 1)>>]
    \o << <<"barrier">> >>

\* logical_x that leaves out the qubit of the first row: range(1, d).
LogicalXGates_SkipFirstRow(dd) ==
    [k \in 1 .. (IF dd > 1 THEN dd - 1 ELSE 0) |-> <<"x", Data(dd, k * dd)>>]
    \o << <<"barrier">> >>

LogicalXGates(dd) ==
    [k \in 1 .. (IF dd > 0 THEN dd ELSE 0) |-> <<"x", Data(dd, (k - 1) * dd)>>]
    \o << <<"barrier">> >>

\* measure_z that reads the first column instead of the first row.
MeasureZGates_Column(dd) ==
    [k \in 1 .. (IF dd > 0 THEN dd ELSE 0) |-> <<"cx", Data(dd, (k - 1) * dd), Ancilla(dd)>>]
    \o << <<"measure", Ancilla(dd), 1, 0>>, <<"reset", Ancilla(dd)>>, <<"barrier">> >>

\* The gates measure_z() appends before it hands the circuit over.
MeasureZGates(dd) ==
    [k \in 1 .. (IF dd > 0 THEN dd ELSE 0) |-> <<"cx", Data(dd, k - 1), Ancilla(dd)>>]
    \o << <<"measure", Ancilla(dd), 1, 0>>, <<"reset", Ancilla(dd)>>, <<"barrier">> >>

\* ------------------------------------------------------------ the simulator
(***************************************************************************)
(* exec(circ) runs the circuit for one shot on a simulator and reads the    *)
(* classical registers back.  The circuit is simulated gate by gate on a    *)
(* stabilizer tableau over all qubits (rows 0 .. n-1 are the destabilizers, *)
(* rows n .. 2n-1 the stabilizers; row r is the operator                    *)
(* i^ph[r] * X^{k : r \in xc[k]} * Z^{k : r \in zc[k]}).  Every qubit        *)
(* starts in |0>.  A measurement whose outcome is not determined takes the  *)
(* next bit of the random sequence `coins`.                                 *)
(***************************************************************************)
CoinSeqs == SUBSET (0 .. (CoinBits - 1))

Coin(coins, k) == IF (k % CoinBits) \in coins THEN 1 ELSE 0

\* xc[q + 1], zc[q + 1]: the rows with an X, a Z on qubit q; ph[r + 1]: the
\* phase of row r.
SimInit(n, ncregs) ==
    [xc   |-> [q \in 1 .. n |-> {q - 1}] \o << >>,
     zc   |-> [q \in 1 .. n |-> {n + q - 1}] \o << >>,
     ph   |-> [r \in 1 .. (2 * n) |-> 0] \o << >>,
     k    |-> 0,
     regs |-> [r \in 1 .. ncregs |-> {}] \o << >>]

\* Multiply the rows in S by -1.
AddTwo(ph, S) ==
    IF S = {} THEN ph
    ELSE [r \in 1 .. Len(ph) |-> IF (r - 1) \in S THEN (ph[r] + 2) % 4 ELSE ph[r]] \o << >>

GateH(st, q) ==
    [st EXCEPT !.xc[q + 1] = st.zc[q + 1], !.zc[q + 1] = st.xc[q + 1],
               !.ph = AddTwo(st.ph, st.xc[q + 1] \cap st.zc[q + 1])]

GateCX(st, c, t) ==
    [st EXCEPT !.xc[t + 1] = SymDiff(st.xc[t + 1], st.xc[c + 1]),
               !.zc[c + 1] = SymDiff(st.zc[c + 1], st.zc[t + 1])]

GateX(st, q) == [st EXCEPT !.ph = AddTwo(st.ph, st.zc[q + 1])]

GateZ(st, q) == [st EXCEPT !.ph = AddTwo(st.ph, st.xc[q + 1])]

\* The outcome of measuring qubit q in the computational basis when it is
\* determined: the sign of the product of the stabilizers that make up Z_q.
DeterminedOutcome(st, q, n) ==
    LET S     == {r + n : r \in {r \in st.xc[q + 1] : r < n}}
        sumph == Cardinality({r \in S : st.ph[r + 1] = 1})
                 + 2 * Cardinality({r \in S : st.ph[r + 1] = 2})
                 + 3 * Cardinality({r \in S : st.ph[r + 1] = 3})
        swaps == Cardinality({k \in 1 .. n :
                    Odd(Cardinality({pr \in (st.zc[k] \cap S) \X (st.xc[k] \cap S) :
                                        pr[1] < pr[2]}))})
    IN  ((sumph + 2 * swaps) % 4) \div 2

\* Measure qubit q: the state after the measurement and the outcome b.
MeasureQ(st, q, coins) ==
    LET n    == Len(st.xc)
        anti == {r \in st.xc[q + 1] : r >= n}
    IN  IF anti = {}
          THEN [st |-> st, b |-> DeterminedOutcome(st, q, n)]
          ELSE
            LET p  == CHOOSE r \in anti : \A s \in anti : r <= s
                b  == Coin(coins, st.k)
                R  == {r \in st.xc[q + 1] : r # p}
                Px == {k \in 1 .. n : p \in st.xc[k]}
                ph == [i \in 1 .. (2 * n) |->
                         IF i - 1 = p THEN 2 * b
                         ELSE IF (i - 1) \in R
                           THEN (st.ph[i] + st.ph[p + 1]
                                 + 2 * Cardinality({k \in Px : (i - 1) \in st.zc[k]})) % 4
                           ELSE st.ph[i]] \o << >>
                xc == [k \in 1 .. n |->
                         IF p \in st.xc[k]
                           THEN {r \in SymDiff(st.xc[k], R) : r # p} \cup {p - n}
                           ELSE {r \in st.xc[k] : r # p - n}] \o << >>
                zc == [k \in 1 .. n |->
                         LET moved == IF p \in st.zc[k]
                                        THEN {r \in SymDiff(st.zc[k], R) : r # p} \cup {p - n}
                                        ELSE {r \in st.zc[k] : r # p - n}
                         IN  IF k = q + 1 THEN moved \cup {p} ELSE moved] \o << >>
            IN  [st |-> [st EXCEPT !.xc = xc, !.zc = zc, !.ph = ph, !.k = st.k + 1],
                 b  |-> b]

GateMeasure(st, q, reg, bit, coins) ==
    LET m == MeasureQ(st, q, coins)
    IN  [m.st EXCEPT !.regs[reg] =
            IF m.b = 1 THEN m.st.regs[reg] \cup {bit}
                       ELSE {x \in m.st.regs[reg] : x # bit}]

\* reset: the qubit is brought back to |0>.
GateReset(st, q, coins) ==
    LET m == MeasureQ(st, q, coins)
    IN  IF m.b = 1 THEN GateX(m.st, q) ELSE m.st

\* The gate appended by single_err: an orthogonal 2x2 matrix, a combination
\* of I, X, Z and XZ; the stabilizer measurements that follow select one of
\* them, here by the next two random bits.
GateUnitary(st, q, coins) ==
    LET s1 == IF Coin(coins, st.k) = 1 THEN GateX(st, q) ELSE st
        s2 == IF Coin(coins, st.k + 1) = 1 THEN GateZ(s1, q) ELSE s1
    IN  [s2 EXCEPT !.k = st.k + 2]

ApplyGate(st, g, coins) ==
    CASE g[1] = "h"       -> GateH(st, g[2])
      [] g[1] = "cx"      -> GateCX(st, g[2], g[3])
      [] g[1] = "x"       -> GateX(st, g[2])
      [] g[1] = "z"       -> GateZ(st, g[2])
      [] g[1] = "measure" -> GateMeasure(st, g[2], g[3], g[4], coins)
      [] g[1] = "reset"   -> GateReset(st, g[2], coins)
      [] g[1] = "unitary" -> GateUnitary(st, g[2], coins)
      [] OTHER            -> st

\* The state after the gates circ[lo] .. circ[hi], in order, from state st.
RECURSIVE RunGates(_, _, _, _, _)
RunGates(circ, lo, hi, st, coins) ==
    IF lo > hi THEN st
    ELSE IF lo = hi THEN ApplyGate(st, circ[lo], coins)
    ELSE LET mid  == (lo + hi) \div 2
             left == RunGates(circ, lo, mid, st, coins)
         IN  IF left.k >= 0 THEN RunGates(circ, mid + 1, hi, left, coins) ELSE left

\* exec(circ): one integer per classical register, the register added last
\* first (the counts key lists the registers from the last to the first).
exec(circ, ncregs, n, coins) ==
    LET final == RunGates(circ, 1, Len(circ), SimInit(n, ncregs), coins)
    IN  [i \in 1 .. ncregs |-> final.regs[ncregs + 1 - i]]

\* ------------------------------------------------------------- the decoder
\* The walk that starts at position 1: range(1, d - 1, 2).
indices_FromOne(dd) == {i \in 1 .. (dd - 2) : i % 2 = 1}

\* indices = [*range(0, self.d - 1, 2)]: the "up" positions of get_flips.
indices(dd) == {i \in 0 .. (dd - 2) : i % 2 = 0}

\* get_flips that leaves parity_ll out of the count.
get_flips_NoLowerLeft(dd, syndrome) ==
    LET ups        == indices(dd)
        index_lr(i) == i + dd
        counted    == {i \in ups : i \in syndrome /\ ~ (index_lr(i) \in syndrome)}
        extra      == IF /\ ((dd - 1) * (dd - 1) + 1) \in syndrome
                         /\ ~ ((2 * dd - 3) \in syndrome)
                        THEN 1 ELSE 0
    IN  Cardinality(counted) + extra

\* get_flips(syndrome)
get_flips(dd, syndrome) ==
    LET ups        == indices(dd)
        index_lr(i) == i + dd
        index_ll(i) == IF i # 0 THEN i + dd - 2 ELSE (dd - 1) * (dd - 1) + 3
        counted    == {i \in ups :
                         /\ i \in syndrome
                         /\ ~ (index_ll(i) \in syndrome \/ index_lr(i) \in syndrome)}
        extra      == IF /\ ((dd - 1) * (dd - 1) + 1) \in syndrome
                         /\ ~ ((2 * dd - 3) \in syndrome)
                        THEN 1 ELSE 0
    IN  Cardinality(counted) + extra

\* The fold with | in the place of ^.
RECURSIVE XorAll_Or(_, _)
XorAll_Or(syndromes, k) ==
    IF k = 0 THEN {} ELSE XorAll_Or(syndromes, k - 1) \cup syndromes[k]

\* reduce(lambda x, y: x ^ y, syndromes, 0), over the first k entries.
RECURSIVE XorAll(_, _)
XorAll(syndromes, k) ==
    IF k = 0 THEN {} ELSE SymDiff(XorAll(syndromes, k - 1), syndromes[k])

\* The aggregate syndrome of measure_z: the differences of consecutive
\* entries result[i] ^ result[i+1], i in range(round - 1), folded by ^.
Aggregate(result, rnd) ==
    LET syndromes == [i \in 1 .. (IF rnd - 1 > 0 THEN rnd - 1 ELSE 0) |->
                         SymDiff(result[i], result[i + 1])]
    IN  XorAll(syndromes, Len(syndromes))

\* 1 << (2 * d - 3) is evaluated when bit (d-1)^2 + 1 of the syndrome is set;
\* a negative shift count raises ValueError.
NegativeShift(dd, syndrome) ==
    ((dd - 1) * (dd - 1) + 1) \in syndrome /\ 2 * dd - 3 < 0

\* result[-1] as an integer.
LastValue(result) == IF 0 \in result[Len(result)] THEN 1 ELSE 0

Flips(dd, result, rnd) == get_flips(dd, Aggregate(result, rnd)) + LastValue(result)

\* ------------------------------------------------------------------ state
VARIABLES
    pc,        \* "new": no object yet; "built"; "failed": the constructor raised
    d,         \* self.d
    round,     \* self.round
    cregs,     \* the classical registers of self.circuit, in the order added
    circuit,   \* the gates of self.circuit, in the order appended
    calls,     \* history: the calls made, the constructor first
    handoffs,  \* history: the number of times exec(self.circuit) was called
    handed,    \* history: the circuit as exec received it last
    result,    \* measure_z: the list exec returned
    flips,     \* measure_z: its local flips
    ret,       \* what the last measure_z returned (NoValue: nothing)
    err        \* the exception the last call raised ("none": it returned)

vars == <<pc, d, round, cregs, circuit, calls, handoffs, handed, result, flips, ret, err>>

NoValue == 0 - 1

Init ==
    /\ pc = "new"
    /\ d = 0
    /\ round = 0
    /\ cregs = << >>
    /\ circuit = << >>
    /\ calls = << >>
    /\ handoffs = 0
    /\ handed = << >>
    /\ result = << >>
    /\ flips = NoValue
    /\ ret = NoValue
    /\ err = "none"

ClassicalRegister(size, name, idx) == [name |-> name, idx |-> idx, size |-> size]

\* SurfaceQubit(dd): __init__
Construct(dd) ==
    /\ pc = "new"
    /\ calls' = << <<"SurfaceQubit", dd>> >>
    /\ IF dd % 2 = 1
         THEN /\ pc' = "built"
              /\ d' = dd
              /\ round' = 0
              /\ cregs' = << ClassicalRegister(1, "measurement", 0) >>
              /\ circuit' = << >>
              /\ err' = "none"
         ELSE /\ pc' = "failed"
              /\ err' = "AssertionError"
              /\ UNCHANGED <<d, round, cregs, circuit>>
    /\ UNCHANGED <<handoffs, handed, result, flips, ret>>

\* A method can be called: the object exists.  Lattices whose syndrome
\* register is empty (d = 1, d = -1) are constructed but not used further.
Usable == pc = "built" /\ SyndromeSize(d) > 0

Count(kind) == Cardinality({k \in 1 .. Len(calls) : calls[k][1] = kind})

\* The calls that inject a fault or apply a logical operator.
Disturbances ==
    Cardinality({k \in 1 .. Len(calls) :
                   calls[k][1] \notin {"SurfaceQubit", "stabilize", "measure_z"}})

\* stabilize that increments self.round before it names the register.
stabilize_IncrementFirst ==
    /\ Usable
    /\ round < MaxRounds
    /\ round' = round + 1
    /\ cregs' = Append(cregs, ClassicalRegister(SyndromeSize(d), "readout", round + 1))
    /\ circuit' = circuit \o StabilizeGates(d, Len(cregs) + 1)
    /\ calls' = Append(calls, <<"stabilize">>)
    /\ err' = "none"
    /\ UNCHANGED <<pc, d, handoffs, handed, result, flips, ret>>

stabilize ==
    /\ Usable
    /\ round < MaxRounds
    /\ round' = round + 1
    /\ cregs' = Append(cregs, ClassicalRegister(SyndromeSize(d), "readout", round))
    /\ circuit' = circuit \o StabilizeGates(d, Len(cregs) + 1)
    /\ calls' = Append(calls, <<"stabilize">>)
    /\ err' = "none"
    /\ UNCHANGED <<pc, d, handoffs, handed, result, flips, ret>>

logical_z ==
    /\ Usable
    /\ Disturbances = 0
    /\ circuit' = circuit \o LogicalZGates(d)
    /\ calls' = Append(calls, <<"logical_z">>)
    /\ err' = "none"
    /\ UNCHANGED <<pc, d, round, cregs, handoffs, handed, result, flips, ret>>

logical_x ==
    /\ Usable
    /\ Disturbances = 0
    /\ circuit' = circuit \o LogicalXGates(d)
    /\ calls' = Append(calls, <<"logical_x">>)
    /\ err' = "none"
    /\ UNCHANGED <<pc, d, round, cregs, handoffs, handed, result, flips, ret>>

\* q = self.data[i] if i > -1 else random.choice(self.data)
Targets(dd, i) == IF i > 0 - 1 THEN {Data(dd, i)} ELSE {Data(dd, k) : k \in Range(DataSize(dd))}

\* The arguments i explored: the default -1 and every index of self.data.
Indices(dd) == (0 - 1) .. (DataSize(dd) - 1)

\* single_bitflip, single_phaseflip, single_err: one gate on one data qubit.
SingleFault(name, gate) ==
    /\ Usable
    /\ Disturbances = 0
    /\ \E i \in Indices(d) : \E q \in Targets(d, i) :
          /\ circuit' = Append(circuit, <<gate, q>>)
          /\ calls' = Append(calls, <<name, q>>)
    /\ err' = "none"
    /\ UNCHANGED <<pc, d, round, cregs, handoffs, handed, result, flips, ret>>

\* single_bitflip that appends the gate of single_phaseflip.
single_bitflip_AsPhaseflip == SingleFault("single_bitflip", "z")

single_bitflip == SingleFault("single_bitflip", "x")

single_phaseflip == SingleFault("single_phaseflip", "z")

single_err == SingleFault("single_err", "unitary")

\* The decoding in measure_z, with res the list exec(self.circuit) returned:
\* res[i] ^ res[i+1] for i in range(round - 1) and res[-1] raise IndexError
\* on a list that is too short.  A call that raises returns nothing.
Decode(res) ==
    /\ result' = res
    /\ IF Len(res) = 0 \/ Len(res) < round
         THEN /\ err' = "IndexError"
              /\ flips' = NoValue
              /\ ret' = NoValue
         ELSE IF NegativeShift(d, Aggregate(res, round))
         THEN /\ err' = "ValueError"
              /\ flips' = NoValue
              /\ ret' = NoValue
         ELSE /\ err' = "none"
              /\ flips' = Flips(d, res, round)
              /\ ret' = Flips(d, res, round) % 2

\* measure_z up to the call of exec: the readout gates are appended and the
\* circuit is handed over.
HandOver ==
    /\ Usable
    /\ circuit' = circuit \o MeasureZGates(d)
    /\ handoffs' = handoffs + 1
    /\ handed' = circuit \o MeasureZGates(d)
    /\ calls' = Append(calls, <<"measure_z">>)
    /\ UNCHANGED <<pc, d, round, cregs>>

\* measure_z, the circuit executed by the simulator.
measure_z ==
    /\ HandOver
    /\ \E coins \in CoinSeqs :
          Decode(exec(circuit \o MeasureZGates(d), Len(cregs), NumQubits(d), coins))

\* One run: an object is constructed, rounds are emitted, at most one fault
\* or logical operator is applied, and measure_z ends the run.
Running == handoffs = 0

Next ==
    \/ \E dd \in Distances : Construct(dd)
    \/ Running /\ stabilize
    \/ Running /\ logical_z
    \/ Running /\ logical_x
    \/ Running /\ single_bitflip
    \/ Running /\ single_phaseflip
    \/ Running /\ single_err
    \/ Running /\ measure_z

Spec == Init /\ [][Next]_vars

\* The object used on after its program was handed over: every method in
\* every order, on the small lattices.
ReuseDistances == (0 - 3) .. ReuseMaxD

MoreCalls == Len(calls) <= MaxCalls

NextReuse ==
    \/ \E dd \in ReuseDistances : Construct(dd)
    \/ MoreCalls /\ stabilize
    \/ MoreCalls /\ logical_z
    \/ MoreCalls /\ logical_x
    \/ MoreCalls /\ single_bitflip
    \/ MoreCalls /\ single_phaseflip
    \/ MoreCalls /\ single_err
    \/ MoreCalls /\ measure_z

SpecReuse == Init /\ [][NextReuse]_vars

\* The execution service as a collaborator that answers with any list of
\* integers: of any length, its entries drawn from two bits the decoder reads,
\* the first "up" bit (which is also the ancilla bit) and its "lower-right".
DecoderBits(dd) == {0, dd}

RECURSIVE Lists(_, _)
Lists(S, n) ==
    IF n = 0 THEN {<< >>}
    ELSE Lists(S, n - 1) \cup {Append(l, v) : l \in {l \in Lists(S, n - 1) : Len(l) = n - 1}, v \in S}

\* The lists of up to rnd + 2 entries: every length up to one more than the
\* rnd + 1 registers of the program.
Responses(dd, rnd) == Lists(SUBSET DecoderBits(dd), rnd + 2)

\* measure_z, the answer of the execution service left open.
measure_z_served ==
    /\ HandOver
    /\ \E res \in Responses(d, round) : Decode(res)

NextService ==
    \/ \E dd \in Distances : Construct(dd)
    \/ Running /\ stabilize
    \/ Running /\ measure_z_served

SpecService == Init /\ [][NextService]_vars

\* ----------------------------------------------------------------- claims
\* The lattice of the claims: an object with an odd distance of at least 3.
Lattice == pc = "built" /\ d >= 3

FaceIndices == 1 .. Len(Faces(d))

\* The bit positions (syndrome qubit numbers) of the Z-type faces on q.
ZFacesOn(q) ==
    {k - 1 : k \in {k \in FaceIndices :
                      Faces(d)[k].type = "Z" /\ q \in Participants(Faces(d)[k])}}

\* C1: every X-type face and every Z-type face that stabilize() traverses
\* share an even number (0 or 2) of data qubits.
C1_XZFacesCommute ==
    (Lattice /\ round >= 1) =>
        LET F == Faces(d)
        IN  \A f \in FaceIndices : \A g \in FaceIndices :
              (F[f].type = "X" /\ F[g].type = "Z") =>
                 Cardinality(Participants(F[f]) \cap Participants(F[g])) \in {0, 2}

\* The run stabilize(); single_bitflip(q); stabilize(); measure_z().
BitflipRun ==
    /\ Len(calls) = 5
    /\ calls[2] = <<"stabilize">>
    /\ calls[3][1] = "single_bitflip"
    /\ calls[4] = <<"stabilize">>
    /\ calls[5] = <<"measure_z">>

\* C2: in the run stabilize(); single_bitflip(q); stabilize() the two round
\* registers differ exactly at the positions of the Z-type faces on q.
C2_BitflipSyndrome ==
    (Lattice /\ BitflipRun) => SymDiff(result[1], result[2]) = ZFacesOn(calls[3][2])

\* The circuit of n rounds and nothing else, followed by measure_z.
RECURSIVE RoundsCircuit(_, _)
RoundsCircuit(dd, n) ==
    IF n = 0 THEN << >> ELSE RoundsCircuit(dd, n - 1) \o StabilizeGates(dd, n + 1)

\* What measure_z can return in the run of the same rounds with no fault and
\* no logical operator.
BaselineBits ==
    {Flips(d, exec(RoundsCircuit(d, round) \o MeasureZGates(d), round + 1,
                   NumQubits(d), coins), round) % 2 : coins \in CoinSeqs}

\* A finished run whose only call besides stabilize and measure_z is
\* logical_x.
LogicalXRun ==
    /\ handoffs = 1
    /\ Count("logical_x") = 1
    /\ Disturbances = 1

\* C3: a run with logical_x() and no other fault returns the opposite bit of
\* the same run without logical_x().
C3_LogicalXFlips == (Lattice /\ LogicalXRun) => BaselineBits = {1 - ret}

C3_Witness == Lattice /\ LogicalXRun /\ d = 5 /\ round = 2 /\ ret = 1

\* C4: one round without a fault, then measure_z: the flip count is 0 and so
\* is the decoded bit.
C4_CleanRoundDecodesZero ==
    (Lattice /\ calls = << <<"SurfaceQubit", d>>, <<"stabilize">>, <<"measure_z">> >>)
        => (flips = 0 /\ ret = 0)

C4_Witness ==
    /\ Lattice /\ d = 5 /\ flips = 0
    /\ calls = << <<"SurfaceQubit", d>>, <<"stabilize">>, <<"measure_z">> >>
    /\ result[1] # {}

\* The syndrome qubits the face circuits of the first round act on: the
\* gates before the first measure gate of a circuit that starts with a round.
FirstRoundSyndromes ==
    LET first == CHOOSE i \in 1 .. Len(circuit) :
                    circuit[i][1] = "measure" /\ \A j \in 1 .. (i - 1) : circuit[j][1] # "measure"
    IN  {q \in UNION {{circuit[i][2], circuit[i][3]} : i \in {i \in 1 .. (first - 1) : circuit[i][1] = "cx"}} :
            q >= DataSize(d)}

\* C5: a round traverses d*d - 1 faces: first the (d-1)^2 interior faces, of
\* 4 data qubits each, then the 4 * (d div 2) edge faces, of 2 data qubits
\* each; every face gets a syndrome qubit and every syndrome qubit a face.
C5_FaceCount ==
    (Lattice /\ Len(calls) >= 2 /\ calls[2] = <<"stabilize">>) =>
        LET F  == Faces(d)
            ni == (d - 1) * (d - 1)
        IN  /\ Len(F) = d * d - 1
            /\ Len(F) = ni + 4 * (d \div 2)
            /\ \A k \in 1 .. Len(F) :
                 /\ (k <= ni) => (F[k].kind = "interior" /\ Cardinality(Participants(F[k])) = 4)
                 /\ (k > ni) => (F[k].kind # "interior" /\ Cardinality(Participants(F[k])) = 2)
                 /\ NextSyndrome(d, k) # NoQubit
            /\ \A k \in 1 .. Len(F) : \A l \in 1 .. Len(F) :
                 (NextSyndrome(d, k) = NextSyndrome(d, l)) => k = l
            /\ FirstRoundSyndromes = {Syndrome(d, k) : k \in Range(SyndromeSize(d))}

C5_Witness ==
    Lattice /\ d = 5 /\ round = 2 /\ calls[2] = <<"stabilize">>
    /\ Len(Faces(d)) = 24 /\ Cardinality(FirstRoundSyndromes) = 24

\* C6: interior faces next to each other in a row or a column have opposite
\* types, and the face at (row, col) is Z-type iff row + col is even.
C6_Checkerboard ==
    (Lattice /\ round >= 1) =>
        LET F   == Faces(d)
            Inner == {k \in 1 .. Len(F) : F[k].kind = "interior"}
        IN  /\ \A k \in Inner : \A l \in Inner :
                 (\/ (F[k].row = F[l].row /\ F[k].col = F[l].col + 1)
                  \/ (F[k].col = F[l].col /\ F[k].row = F[l].row + 1))
                 => F[k].type # F[l].type
            /\ \A k \in Inner : (F[k].type = "Z") <=> ((F[k].row + F[k].col) % 2 = 0)

C6_Witness ==
    /\ Lattice /\ d = 5 /\ round >= 1
    /\ Faces(d)[1].type = "Z" /\ Faces(d)[2].type = "X" /\ Faces(d)[5].type = "X"
    /\ Faces(d)[5].row = 1 /\ Faces(d)[5].col = 0

\* C7: the constructor fails for every d that is even or not positive, and
\* creates no lattice then; it succeeds for every odd positive d.
C7_InvalidDistance ==
    (Len(calls) >= 1) =>
        LET dd == calls[1][2]
        IN  IF dd % 2 = 0 \/ dd <= 0 THEN pc = "failed" ELSE pc = "built"

\* The registers the program holds after n rounds on a distance dd lattice.
ExpectedRegisters(dd, n) ==
    << [name |-> "measurement", idx |-> 0, size |-> 1] >>
    \o [k \in 1 .. n |-> [name |-> "readout", idx |-> k - 1, size |-> dd * dd - 1]]

\* C10: the round counter is 0 after construction and is always the number
\* of stabilize calls made; the program holds the measurement register and
\* one register readout0 .. readout{round-1} of width d*d - 1 per round.
C10_RoundCounter ==
    (pc = "built") =>
        /\ (Len(calls) = 1 => round = 0)
        /\ round = Count("stabilize")
        /\ cregs = ExpectedRegisters(d, round)

C10_Witness ==
    /\ Lattice /\ round = 2 /\ Count("single_err") = 1 /\ Len(cregs) = 3
    /\ calls[3][1] = "single_err"

C9_HandedOnceThenFrozen ==
    Lattice =>
        /\ handoffs <= 1
        /\ (handoffs >= 1) => (circuit = handed)

\* A finished run in which measure_z was called before any round.
DecodedAtRoundZero == Lattice /\ round = 0 /\ handoffs = 1

\* The appended operators that flip the parity of the first row: logical_x
\* and a bit flip on a first-row data qubit.
FirstRowBitflip ==
    \E k \in 1 .. Len(calls) :
       \/ calls[k][1] = "logical_x"
       \/ calls[k][1] = "single_bitflip" /\ calls[k][2] < d

\* A random single-qubit error on a first-row data qubit.
FirstRowRandomError ==
    \E k \in 1 .. Len(calls) : calls[k][1] = "single_err" /\ calls[k][2] < d

GateQubits(g) ==
    IF g[1] = "cx" THEN {g[2], g[3]}
    ELSE IF g[1] = "barrier" THEN {}
    ELSE {g[2]}

\* suf is one round on a distance dd lattice, read into register reg: the
\* face circuits (h and cx gates only), face after face in the order of the
\* traversal, face k on syndrome qubit k - 1 and on its own data qubits; then
\* syndrome qubit k measured into bit k of reg, for every k in order; then
\* every syndrome qubit reset; then a barrier.
IsRound(suf, dd, reg) ==
    LET n  == SyndromeSize(dd)
        nf == Len(suf) - 2 * n - 1
        F  == Faces(dd)
        at == [k \in 1 .. n |->
                 {x : x \in {p \in 1 .. nf : Syndrome(dd, k - 1) \in GateQubits(suf[p])}}]
              \o << >>
        At(k) == at[k]
        DataOf(k) == UNION {GateQubits(suf[p]) : p \in At(k)} \ {Syndrome(dd, k - 1)}
    IN  /\ nf >= 0
        /\ Len(F) = n
        /\ suf[Len(suf)] = <<"barrier">>
        /\ \A p \in 1 .. nf :
              /\ suf[p][1] \in {"h", "cx"}
              /\ \E k \in 1 .. n : p \in At(k)
        /\ \A k \in 1 .. n :
              /\ At(k) # {}
              /\ DataOf(k) = Participants(F[k])
              /\ (k < n) => \A p \in At(k) : \A r \in At(k + 1) : p < r
              /\ suf[nf + k] = <<"measure", Syndrome(dd, k - 1), reg, k - 1>>
              /\ suf[nf + n + k] = <<"reset", Syndrome(dd, k - 1)>>

\* The gates a step appended to the circuit.
Appended == SubSeq(circuit', Len(circuit) + 1, Len(circuit'))

\* C12: every step that emits a round leaves the gates before it as they
\* were (no gate of the new round precedes the barrier of an earlier one),
\* adds one fresh register readout{round} that no earlier gate measures into,
\* and appends all face circuits, then the measurement of syndrome qubit k
\* into bit k of that register, then the resets, then a barrier: the same
\* face order and the same face on bit k in every round.
C12_RoundGateOrder ==
    [][(Lattice /\ round' = round + 1) =>
          /\ SubSeq(circuit', 1, Len(circuit)) = circuit
          /\ cregs' = Append(cregs, [name |-> "readout", idx |-> round, size |-> d * d - 1])
          /\ \A p \in 1 .. Len(circuit) :
                circuit[p][1] = "measure" => circuit[p][3] # Len(cregs')
          /\ \A r \in 1 .. Len(cregs) : <<cregs[r].name, cregs[r].idx>> # <<"readout", round>>
          /\ IsRound(Appended, d, Len(cregs'))]_vars

\* Two rounds with a fault between them; the circuit ends with the second.
C12_Witness ==
    /\ Lattice /\ d = 5 /\ round = 2 /\ Len(calls) = 4 /\ calls[3][1] = "single_err"
    /\ circuit[Len(circuit)] = <<"barrier">>
    /\ circuit[Len(circuit) - SyndromeSize(d) - 1] = <<"measure", Syndrome(d, 23), 3, 23>>

\* The data qubits the circuit couples to syndrome qubit number k by a cx
\* gate whose target is that syndrome qubit (the gates of a Z-type face).
ZCoupled(k) ==
    {circuit[p][2] : p \in {p \in 1 .. Len(circuit) :
                               circuit[p][1] = "cx" /\ circuit[p][3] = Syndrome(d, k)}}

\* C13 as stated: every "up" position 0, 2, ..., d-3 that get_flips reads is
\* the register bit of a top-edge boundary face.
C13_UpBitsAreTopEdgeFaces ==
    (Lattice /\ round >= 1 /\ handoffs = 1) =>
        \A i \in indices(d) : Faces(d)[i + 1].kind = "upper"

\* C13, amended: the "up" positions are 0, 2, ..., d-3, and position i is the
\* register bit of the interior Z-type face of row 0 and column i, on data
\* qubits i, i+1, i+d, i+d+1; every interior Z-type face of row 0 is read so;
\* the top-edge boundary faces are the X-type faces at (d-1)^2 + 4k.
C13_UpBitsAreFirstRowZFaces ==
    (Lattice /\ round >= 1 /\ handoffs = 1) =>
        LET F == Faces(d)
        IN  /\ indices(d) = {2 * k : k \in 0 .. ((d - 3) \div 2)}
            /\ \A i \in indices(d) :
                 /\ F[i + 1].kind = "interior" /\ F[i + 1].type = "Z"
                 /\ F[i + 1].row = 0 /\ F[i + 1].col = i
                 /\ ZCoupled(i) = {i, i + 1, i + d, i + d + 1}
            /\ \A k \in 1 .. Len(F) :
                 /\ (F[k].kind = "interior" /\ F[k].type = "Z" /\ F[k].row = 0)
                       => (k - 1) \in indices(d)
                 /\ (F[k].kind = "upper")
                       => (F[k].type = "X" /\ \E e \in 0 .. (d \div 2 - 1) : k - 1 = (d - 1) * (d - 1) + 4 * e)

\* Position 2 of the aggregate is raised by a bit flip on data qubit 2.
C13_Witness ==
    /\ Lattice /\ d = 5 /\ round = 2 /\ handoffs = 1
    /\ calls[3] = <<"single_bitflip", 2>>
    /\ 2 \in Aggregate(result, round)

\* C14: with one entry per register in the response, the aggregate syndrome
\* is the xor of the first and the last round register (0 for one round), and
\* the flip count and the decoded bit are those of the first round register,
\* the last round register and the ancilla bit, whatever lies between them.
C14_AggregateTelescopes ==
    (Lattice /\ handoffs = 1 /\ round >= 1 /\ Len(result) = round + 1) =>
        LET ends == SymDiff(result[1], result[round])
        IN  /\ err = "none"
            /\ Aggregate(result, round) = ends
            /\ (round = 1) => (ends = {})
            /\ flips = get_flips(d, ends) + LastValue(result)
            /\ ret = flips % 2

\* Three rounds; the register in the middle differs from both ends.
C14_Witness ==
    /\ Lattice /\ d = 5 /\ round = 3 /\ handoffs = 1
    /\ result = << {0}, {0, d}, {}, {0} >>
    /\ flips = 2 /\ ret = 0

\* C15: the run stabilize(); single_bitflip(q); stabilize(); measure_z()
\* returns 0 for every data qubit q: a flip in the first row raises the
\* ancilla bit and get_flips counts exactly one flip; a flip in another row
\* leaves the ancilla bit and the count of get_flips at 0.
C15_SingleBitflipDecodesZero ==
    (Lattice /\ BitflipRun) =>
        LET q       == calls[3][2]
            counted == get_flips(d, Aggregate(result, round))
            ancilla == LastValue(result)
        IN  /\ err = "none"
            /\ ret = 0
            /\ flips = counted + ancilla
            /\ (q < d) => (ancilla = 1 /\ counted = 1)
            /\ (q >= d) => (ancilla = 0 /\ counted = 0)

\* The flip on the last qubit of the first row, counted by the extra test of
\* get_flips on the first right-edge face.
C15_Witness ==
    /\ Lattice /\ BitflipRun /\ d = 5
    /\ calls[3] = <<"single_bitflip", 4>>
    /\ ((d - 1) * (d - 1) + 1) \in Aggregate(result, round)
    /\ flips = 2 /\ ret = 0

====
